---- MODULE Spec2Model ----
(***************************************************************************)
(* Model of mpt/src/mpt.rs: the MPT circuit's byte/word codec (pad,        *)
(* into_words), the Keccak table loader, the row assigner (assign and its  *)
(* helpers) and the gates and lookup declared by configure.                *)
(*                                                                         *)
(* Numbers.  A u64 and a field element F are both held as the little-endian*)
(* sequence of their base-65536 limbs without trailing zero limbs (TLC's    *)
(* integers are 32 bits wide).  The form is canonical, so two values are   *)
(* equal exactly when their limb sequences are equal.  Every value of the  *)
(* model stays far below the modulus of the Pallas base field, so no       *)
(* reduction modulo p ever happens and F::from_u64 is the embedding.       *)
(* A constraint is a product of factors; in a field it vanishes exactly    *)
(* when one factor vanishes, which is how each constraint is evaluated.    *)
(*                                                                         *)
(* Rows.  The columns have UsableRows rows; a write to a row outside them  *)
(* returns Err (halo2's Error::BoundsFailure).  The variable writes counts *)
(* the writes that assign makes to each cell.                              *)
(***************************************************************************)
EXTENDS Integers, Sequences, FiniteSets, TLC

VARIABLES pc, witness, to_be_hashed, ind, offset, key, s_words, c_words,
          branch_ind, region, keccak_table, failures, input, padded, words,
          writes

vars == <<pc, witness, to_be_hashed, ind, offset, key, s_words, c_words,
          branch_ind, region, keccak_table, failures, input, padded, words,
          writes>>

----------------------------------------------------------------------------
(* crate::param *)
LAYOUT_OFFSET == 2
WITNESS_ROW_WIDTH == 68
S_START == 2
C_START == 36
HASH_WIDTH == 32
KECCAK_INPUT_WIDTH == 17
KECCAK_OUTPUT_WIDTH == 4

(* The value range of a u8 and the radix of into_words_expr. *)
BYTE == 256
(* Radix of the limbs that hold a u64 or a field element. *)
LIMB == BYTE * BYTE

----------------------------------------------------------------------------
(* Sequences are 1-based here and 0-based in the source: At(s, i) is s[i]. *)
At(s, i) == s[i + 1]

Slice(s, from, to) == SubSeq(s, from + 1, to)

Repeat(x, n) == [i \in 1..n |-> x]

RECURSIVE Norm(_)
Norm(limbs) ==
    IF limbs = <<>> THEN <<>>
    ELSE IF limbs[Len(limbs)] = 0 THEN Norm(SubSeq(limbs, 1, Len(limbs) - 1))
    ELSE limbs

Zero == <<>>
One == <<1>>

(* `n as u64` / F::from_u64(n) of a small machine integer n >= 0. *)
u64(n) == Norm(<<n % LIMB, n \div LIMB>>)

RECURSIVE AddLimbs(_, _, _)
AddLimbs(a, b, carry) ==
    IF a = <<>> /\ b = <<>>
    THEN (IF carry = 0 THEN <<>> ELSE <<carry>>)
    ELSE LET x == (IF a = <<>> THEN 0 ELSE Head(a))
                  + (IF b = <<>> THEN 0 ELSE Head(b)) + carry
         IN  <<x % LIMB>> \o AddLimbs(IF a = <<>> THEN <<>> ELSE Tail(a),
                                      IF b = <<>> THEN <<>> ELSE Tail(b),
                                      x \div LIMB)

(* a + b in F *)
FAdd(a, b) == Norm(AddLimbs(a, b, 0))

RECURSIVE MulLimbs(_, _, _)
MulLimbs(a, m, carry) ==
    IF a = <<>>
    THEN (IF carry = 0 THEN <<>> ELSE <<carry>>)
    ELSE LET x == Head(a) * m + carry
         IN  <<x % LIMB>> \o MulLimbs(Tail(a), m, x \div LIMB)

(* a * m for a machine integer 0 <= m <= 256 *)
FMulSmall(a, m) == Norm(MulLimbs(a, m, 0))

(* The base-256 digits of a value, least significant first *)
RECURSIVE Digits(_)
Digits(a) ==
    IF a = <<>> THEN <<>>
    ELSE <<Head(a) % BYTE, Head(a) \div BYTE>> \o Digits(Tail(a))

RECURSIVE MulDigits(_, _)
MulDigits(a, digits) ==
    IF digits = <<>> THEN <<>>
    ELSE FAdd(FMulSmall(a, Head(digits)),
              FMulSmall(MulDigits(a, Tail(digits)), BYTE))

(* a * b in F *)
FMul(a, b) == IF a = <<>> \/ b = <<>> THEN <<>> ELSE MulDigits(a, Digits(b))

----------------------------------------------------------------------------
(* Vec::resize *)
Resize(v, n, fill) ==
    IF n <= Len(v) THEN SubSeq(v, 1, n) ELSE v \o Repeat(fill, n - Len(v))

(* pad without the single-byte case of a one-byte padding *)
pad_two_markers(msg) ==
    LET rate == 136
        padding_total == rate - (Len(msg) % rate)
        padding == Resize(<<1>>, padding_total - 1, 0) \o <<128>>
    IN  msg \o padding

(* pad without the leading 0x01 of the padding *)
pad_without_marker(msg) ==
    LET rate == 136
        padding_total == rate - (Len(msg) % rate)
        padding == Resize(<<>>, padding_total - 1, 0) \o <<128>>
    IN  msg \o padding

(* MPTConfig::pad *)
pad(msg) ==
    LET rate == 136
        padding_total == rate - (Len(msg) % rate)
        padding == IF padding_total = 1
                   THEN <<129>>
                   ELSE Resize(<<1>>, padding_total - 1, 0) \o <<128>>
    IN  msg \o padding

(* the 8 bytes read most significant first *)
from_be_bytes(b) ==
    Norm(<<b[8] + BYTE * b[7], b[6] + BYTE * b[5],
           b[4] + BYTE * b[3], b[2] + BYTE * b[1]>>)

(* u64::from_le_bytes of 8 bytes *)
from_le_bytes(b) ==
    Norm(<<b[1] + BYTE * b[2], b[3] + BYTE * b[4],
           b[5] + BYTE * b[6], b[7] + BYTE * b[8]>>)

(* MPTConfig::into_words *)
into_words(message) ==
    LET words_total == Len(message) \div 8
    IN  [i \in 1..words_total |->
            from_le_bytes(Slice(message, (i - 1) * 8, (i - 1) * 8 + 8))]

(* Sum of msg[j] * (((j + shift) % 13) + 1) for lo <= j <= hi, halving the range *)
RECURSIVE SumBytes(_, _, _, _)
SumBytes(msg, shift, lo, hi) ==
    IF lo > hi THEN 0
    ELSE IF lo = hi THEN msg[lo] * (((lo + shift) % 13) + 1)
    ELSE LET mid == (lo + hi) \div 2
         IN  (SumBytes(msg, shift, lo, mid) + SumBytes(msg, shift, mid + 1, hi)) % 65521

(* MPTConfig::compute_keccak.  The Keccak-256 permutation belongs to the   *)
(* external keccak256 crate; it is represented by a deterministic 32-byte  *)
(* digest of the whole message (its bytes, their order and its length).    *)
compute_keccak(msg) ==
    LET a == SumBytes(msg, 0, 1, Len(msg))
        b == SumBytes(msg, 6, 1, Len(msg))
    IN  [i \in 1..HASH_WIDTH |-> (a * i + b + 31 * Len(msg) + i * i) % BYTE]

----------------------------------------------------------------------------
(* The rows of the domain that can be assigned: 2^k rows less the blinding *)
(* rows, with k = 9 in tests::test_mpt; a bound here.                      *)
UsableRows == 64

out_of_rows(off) == off >= UsableRows

(* The columns of MPTConfig at one row.  A cell that was never assigned    *)
(* reads as zero (halo2's MockProver and prover both default it to zero);  *)
(* q_enable is the selector, q_not_first the fixed column.                 *)
ZeroRow ==
    [q_enable |-> Zero, q_not_first |-> Zero,
     is_branch_init |-> Zero, is_branch_child |-> Zero,
     is_compact_leaf |-> Zero, is_keccak_leaf |-> Zero,
     node_index |-> Zero, is_modified |-> Zero, key |-> Zero,
     s_rlp1 |-> Zero, s_rlp2 |-> Zero, c_rlp1 |-> Zero, c_rlp2 |-> Zero,
     s_advices |-> Repeat(Zero, HASH_WIDTH),
     c_advices |-> Repeat(Zero, HASH_WIDTH),
     s_keccak |-> Repeat(Zero, KECCAK_OUTPUT_WIDTH),
     c_keccak |-> Repeat(Zero, KECCAK_OUTPUT_WIDTH)]

(* The row of a region at an offset; a rotation that leaves the assigned   *)
(* rows (also the wrap-around of Rotation::prev at offset 0) reads         *)
(* unassigned cells.                                                       *)
RowAt(reg, r) == IF r >= 0 /\ r < Len(reg) THEN reg[r + 1] ELSE ZeroRow

SetRow(reg, r, row) ==
    LET grown == IF r < Len(reg) THEN reg
                 ELSE reg \o Repeat(ZeroRow, r + 1 - Len(reg))
    IN  [grown EXCEPT ![r + 1] = row]

Bool(b) == IF b THEN One ELSE Zero

(* get_val of assign_row: a byte past the end of the row reads as 0 *)
get_val(row, curr_ind) ==
    IF curr_ind >= Len(row) THEN 0 ELSE At(row, curr_ind)

(* assign_row indexes row[0], row[1], row[LAYOUT_OFFSET + idx] and         *)
(* row[WITNESS_ROW_WIDTH / 2] directly: a shorter row panics.              *)
assign_row_panics(row) == Len(row) <= WITNESS_ROW_WIDTH \div 2

(* assign_row with is_modified left at 0 whatever the index *)
assign_row_never_modified(cur, row, is_branch_init, is_branch_child, node_index, k, is_compact_leaf, is_keccak_leaf) ==
    [cur EXCEPT
        !.is_branch_init = Bool(is_branch_init),
        !.is_branch_child = Bool(is_branch_child),
        !.node_index = u64(node_index),
        !.key = u64(k),
        !.is_modified = Zero,
        !.is_compact_leaf = Bool(is_compact_leaf),
        !.is_keccak_leaf = Bool(is_keccak_leaf),
        !.s_rlp1 = u64(At(row, 0)),
        !.s_rlp2 = u64(At(row, 1)),
        !.s_advices = [idx \in 1..HASH_WIDTH |->
                          u64(At(row, LAYOUT_OFFSET + idx - 1))],
        !.c_rlp1 = u64(At(row, WITNESS_ROW_WIDTH \div 2)),
        !.c_rlp2 = u64(get_val(row, WITNESS_ROW_WIDTH \div 2 + 1)),
        !.c_advices = [idx \in 1..HASH_WIDTH |->
                          u64(get_val(row, WITNESS_ROW_WIDTH \div 2
                                           + LAYOUT_OFFSET + idx - 1))]]

(* MPTConfig::assign_row: the cells it writes at one offset *)
assign_row(cur, row, is_branch_init, is_branch_child, node_index, k, is_compact_leaf, is_keccak_leaf) ==
    [cur EXCEPT
        !.is_branch_init = Bool(is_branch_init),
        !.is_branch_child = Bool(is_branch_child),
        !.node_index = u64(node_index),
        !.key = u64(k),
        !.is_modified = Bool(k = node_index),
        !.is_compact_leaf = Bool(is_compact_leaf),
        !.is_keccak_leaf = Bool(is_keccak_leaf),
        !.s_rlp1 = u64(At(row, 0)),
        !.s_rlp2 = u64(At(row, 1)),
        !.s_advices = [idx \in 1..HASH_WIDTH |->
                          u64(At(row, LAYOUT_OFFSET + idx - 1))],
        !.c_rlp1 = u64(At(row, WITNESS_ROW_WIDTH \div 2)),
        !.c_rlp2 = u64(get_val(row, WITNESS_ROW_WIDTH \div 2 + 1)),
        !.c_advices = [idx \in 1..HASH_WIDTH |->
                          u64(get_val(row, WITNESS_ROW_WIDTH \div 2
                                           + LAYOUT_OFFSET + idx - 1))]]

(* The 21 words of a Keccak row: the first KECCAK_INPUT_WIDTH words of the *)
(* padded pre-image, then the KECCAK_OUTPUT_WIDTH words of the digest      *)
(* (the loops of assign_leaf, lines 621-634, and load_keccak_table,        *)
(* lines 865-878).                                                         *)
keccak_words(t) ==
    LET hash == compute_keccak(t)
        padded_t == pad(t)
        keccak_input == into_words(padded_t)
        keccak_output == into_words(hash)
    IN  [i \in 1..(KECCAK_INPUT_WIDTH + KECCAK_OUTPUT_WIDTH) |->
            IF i - 1 < KECCAK_INPUT_WIDTH
            THEN At(keccak_input, i - 1)
            ELSE At(keccak_output, i - 1 - KECCAK_INPUT_WIDTH)]

(* assign_leaf whose Keccak row is also flagged as a compact leaf *)
assign_leaf_both_flags(reg, row, off) ==
    LET leaf == assign_row(RowAt(reg, off), row, FALSE, FALSE, 0, 0, TRUE, FALSE)
        reg1 == SetRow(reg, off, leaf)
        enabled == [RowAt(reg1, off + 1) EXCEPT !.q_enable = One,
                                                !.q_not_first = One]
        zeros == Repeat(0, WITNESS_ROW_WIDTH)
        blank == assign_row(enabled, zeros, FALSE, FALSE, 0, 0, TRUE, TRUE)
        kw == keccak_words(row)
        krow == [blank EXCEPT !.s_advices =
                    [i \in 1..HASH_WIDTH |->
                        IF i <= KECCAK_INPUT_WIDTH + KECCAK_OUTPUT_WIDTH
                        THEN kw[i] ELSE blank.s_advices[i]]]
    IN  SetRow(reg1, off + 1, krow)

(* MPTConfig::assign_leaf: the leaf row at offset, the Keccak row at       *)
(* offset + 1                                                              *)
assign_leaf(reg, row, off) ==
    LET leaf == assign_row(RowAt(reg, off), row, FALSE, FALSE, 0, 0, TRUE, FALSE)
        reg1 == SetRow(reg, off, leaf)
        enabled == [RowAt(reg1, off + 1) EXCEPT !.q_enable = One,
                                                !.q_not_first = One]
        zeros == Repeat(0, WITNESS_ROW_WIDTH)
        blank == assign_row(enabled, zeros, FALSE, FALSE, 0, 0, FALSE, TRUE)
        kw == keccak_words(row)
        krow == [blank EXCEPT !.s_advices =
                    [i \in 1..HASH_WIDTH |->
                        IF i <= KECCAK_INPUT_WIDTH + KECCAK_OUTPUT_WIDTH
                        THEN kw[i] ELSE blank.s_advices[i]]]
    IN  SetRow(reg1, off + 1, krow)

(* MPTConfig::assign_branch_init *)
assign_branch_init(reg, row, off) ==
    LET cleared == [RowAt(reg, off) EXCEPT !.node_index = Zero,
                                           !.key = Zero,
                                           !.is_modified = Zero]
    IN  SetRow(reg, off,
               assign_row(cleared, row, TRUE, FALSE, 0, 0, FALSE, FALSE))

(* assign_branch_row with the S words also written to the c_keccak columns *)
assign_branch_row_c_from_s(reg, node_index, k, row, sw, cw, off) ==
    LET kecc == [RowAt(reg, off) EXCEPT
                    !.s_keccak = [i \in 1..KECCAK_OUTPUT_WIDTH |-> sw[i]],
                    !.c_keccak = [i \in 1..KECCAK_OUTPUT_WIDTH |-> sw[i]]]
    IN  SetRow(reg, off,
               assign_row(kecc, row, FALSE, TRUE, node_index, k, FALSE, FALSE))

(* MPTConfig::assign_branch_row *)
assign_branch_row(reg, node_index, k, row, sw, cw, off) ==
    LET kecc == [RowAt(reg, off) EXCEPT
                    !.s_keccak = [i \in 1..KECCAK_OUTPUT_WIDTH |-> sw[i]],
                    !.c_keccak = [i \in 1..KECCAK_OUTPUT_WIDTH |-> cw[i]]]
    IN  SetRow(reg, off,
               assign_row(kecc, row, FALSE, TRUE, node_index, k, FALSE, FALSE))

(* the assignment of q_not_first without q_enable.enable *)
enable_fixed_only(reg, off, not_first) ==
    SetRow(reg, off, [RowAt(reg, off) EXCEPT !.q_not_first = Bool(not_first)])

(* q_enable.enable and the assignment of q_not_first at one offset *)
enable(reg, off, not_first) ==
    SetRow(reg, off, [RowAt(reg, off) EXCEPT !.q_enable = One,
                                             !.q_not_first = Bool(not_first)])

(* The data row of assign_leaf alone (line 591) *)
assign_leaf_data(reg, row, off) ==
    SetRow(reg, off, assign_row(RowAt(reg, off), row, FALSE, FALSE, 0, 0, TRUE, FALSE))

(* MPTConfig::load_keccak_table: one table row per pre-image, in order;    *)
(* the write of a row outside the usable rows returns Err and ends it.     *)
load_keccak_table(preimages) ==
    [i \in 1..(IF Len(preimages) < UsableRows THEN Len(preimages) ELSE UsableRows)
        |-> keccak_words(preimages[i])]

(* load_keccak_table returns Err *)
load_keccak_table_fails(preimages) == Len(preimages) > UsableRows

----------------------------------------------------------------------------
(* The cells of one row, as <<column, index>> *)
Cells ==
    {<<c, 0>> : c \in {"q_enable", "q_not_first", "is_branch_init", "is_branch_child",
                        "is_compact_leaf", "is_keccak_leaf", "node_index", "is_modified",
                        "key", "s_rlp1", "s_rlp2", "c_rlp1", "c_rlp2"}}
    \cup {<<c, i>> : c \in {"s_advices", "c_advices"}, i \in 0..(HASH_WIDTH - 1)}
    \cup {<<c, i>> : c \in {"s_keccak", "c_keccak"}, i \in 0..(KECCAK_OUTPUT_WIDTH - 1)}

(* The writes of a call, in order, as <<offset, cell>> *)
Column(off, c, n) == [i \in 1..n |-> <<off, <<c, i - 1>>>>]

(* q_enable.enable and assign_fixed of q_not_first *)
enable_log(off) == Column(off, "q_enable", 1) \o Column(off, "q_not_first", 1)

(* MPTConfig::assign_row *)
assign_row_log(off) ==
    Column(off, "is_branch_init", 1) \o Column(off, "is_branch_child", 1)
        \o Column(off, "node_index", 1) \o Column(off, "key", 1)
        \o Column(off, "is_modified", 1) \o Column(off, "is_compact_leaf", 1)
        \o Column(off, "is_keccak_leaf", 1)
        \o Column(off, "s_rlp1", 1) \o Column(off, "s_rlp2", 1)
        \o Column(off, "s_advices", HASH_WIDTH)
        \o Column(off, "c_rlp1", 1) \o Column(off, "c_rlp2", 1)
        \o Column(off, "c_advices", HASH_WIDTH)

(* assign_leaf without the second pass over the s_advices of the Keccak row *)
assign_leaf_log_single_pass(off) ==
    assign_row_log(off) \o enable_log(off + 1)
        \o Column(off + 1, "s_advices", KECCAK_INPUT_WIDTH + KECCAK_OUTPUT_WIDTH)

(* MPTConfig::assign_leaf *)
assign_leaf_log(off) ==
    assign_row_log(off) \o enable_log(off + 1) \o assign_row_log(off + 1)
        \o Column(off + 1, "s_advices", KECCAK_INPUT_WIDTH + KECCAK_OUTPUT_WIDTH)

(* MPTConfig::assign_branch_init *)
assign_branch_init_log(off) ==
    Column(off, "node_index", 1) \o Column(off, "key", 1)
        \o Column(off, "is_modified", 1) \o assign_row_log(off)

(* MPTConfig::assign_branch_row *)
assign_branch_row_log(off) ==
    Column(off, "s_keccak", KECCAK_OUTPUT_WIDTH)
        \o Column(off, "c_keccak", KECCAK_OUTPUT_WIDTH) \o assign_row_log(off)

(* No write yet: per offset the number of writes of each cell, the highest *)
(* offset written, and the offsets written after a higher one.             *)
NoWrites == [count |-> <<>>, top |-> -1, late |-> {}]

(* The writes of a log added to the record *)
record_writes(w, log) ==
    LET offs == {log[i][1] : i \in 1..Len(log)}
        hi == CHOOSE o \in offs : \A q \in offs : q <= o
        n == IF hi + 1 > Len(w.count) THEN hi + 1 ELSE Len(w.count)
        old(o, c) == IF o < Len(w.count) THEN w.count[o + 1][c] ELSE 0
        zeros == [c \in Cells |-> 0]
    IN  [count |-> [o1 \in 1..n |->
                      IF (o1 - 1) \in offs
                      THEN [c \in Cells |->
                               old(o1 - 1, c)
                                   + Cardinality({i \in 1..Len(log) : log[i] = <<o1 - 1, c>>})]
                      ELSE IF o1 <= Len(w.count) THEN w.count[o1] ELSE zeros],
         top |-> IF hi > w.top THEN hi ELSE w.top,
         late |-> w.late \cup {o \in offs : o < w.top}
                        \cup {log[j][1] : j \in {k \in 1..Len(log) :
                                  \E i \in 1..(k - 1) : log[i][1] > log[k][1]}}]

(* row[0..row.len() - 1] and row[row.len() - 1] *)
Payload(row) == SubSeq(row, 1, Len(row) - 1)
Tag(row) == row[Len(row)]

(* The S and C halves of a row and the hashes in them *)
SHalf(row) == Slice(row, 0, WITNESS_ROW_WIDTH \div 2)
CHalf(row) == Slice(row, WITNESS_ROW_WIDTH \div 2, WITNESS_ROW_WIDTH)
SHash(row) == Slice(row, S_START, S_START + HASH_WIDTH)
CHash(row) == Slice(row, C_START, C_START + HASH_WIDTH)

(* tests::test_mpt, MyCircuit::synthesize: the pre-images handed to load *)
LeafPreimages(w) ==
    LET leaves == SelectSeq(w, LAMBDA row : Tag(row) = 2)
    IN  [i \in 1..Len(leaves) |-> Payload(leaves[i])]

----------------------------------------------------------------------------
(* MPTConfig::configure.  Each constraint is a product of factors that has *)
(* to vanish on every row; it is given as the disjunction "some factor is  *)
(* zero".  A gate's operator yields the names of the constraints that do   *)
(* not vanish at row r of the region.                                      *)
Fail(name, vanishes) == IF vanishes THEN {} ELSE {name}

(* x * (one - x) *)
bool_check(x) == x = Zero \/ x = One

(* into_words_expr: 32 hash cells into 4 cells of Keccak words *)
RECURSIVE word_expr(_, _, _, _, _)
word_expr(hash, i, j, word, exp) ==
    IF j = 8 THEN word
    ELSE word_expr(hash, i, j + 1,
                   FAdd(word, FMul(At(hash, i * 8 + j), exp)),
                   FMul(exp, u64(BYTE)))

into_words_expr(hash) == [i \in 1..4 |-> word_expr(hash, i - 1, 0, Zero, One)]

(* "general constraints" whose "s = c" loop stops one hash byte early *)
general_constraints_short_loop(reg, r) ==
    LET cur == RowAt(reg, r)
        off == cur.q_enable = Zero
        not_child == cur.is_branch_child = Zero
        at_key == cur.node_index = cur.key
    IN  Fail("bool check is branch init", off \/ bool_check(cur.is_branch_init))
        \cup Fail("bool check is branch child", off \/ bool_check(cur.is_branch_child))
        \cup Fail("bool check is compact leaf", off \/ bool_check(cur.is_compact_leaf))
        \cup Fail("bool check is keccak leaf", off \/ bool_check(cur.is_keccak_leaf))
        \cup Fail("rlp 1", off \/ not_child \/ cur.s_rlp1 = cur.c_rlp1 \/ at_key)
        \cup Fail("rlp 2", off \/ not_child \/ cur.s_rlp2 = cur.c_rlp2 \/ at_key)
        \cup Fail("bool check is_modified", off \/ bool_check(cur.is_modified))
        \cup Fail("is modified", off \/ not_child \/ cur.is_modified = Zero \/ at_key)
        \cup Fail("s = c", \A i \in 1..(HASH_WIDTH - 1) :
                      off \/ not_child \/ cur.s_advices[i] = cur.c_advices[i] \/ at_key)

(* gate "general constraints" *)
general_constraints(reg, r) ==
    LET cur == RowAt(reg, r)
        off == cur.q_enable = Zero
        not_child == cur.is_branch_child = Zero
        at_key == cur.node_index = cur.key
    IN  Fail("bool check is branch init", off \/ bool_check(cur.is_branch_init))
        \cup Fail("bool check is branch child", off \/ bool_check(cur.is_branch_child))
        \cup Fail("bool check is compact leaf", off \/ bool_check(cur.is_compact_leaf))
        \cup Fail("bool check is keccak leaf", off \/ bool_check(cur.is_keccak_leaf))
        \cup Fail("rlp 1", off \/ not_child \/ cur.s_rlp1 = cur.c_rlp1 \/ at_key)
        \cup Fail("rlp 2", off \/ not_child \/ cur.s_rlp2 = cur.c_rlp2 \/ at_key)
        \cup Fail("bool check is_modified", off \/ bool_check(cur.is_modified))
        \cup Fail("is modified", off \/ not_child \/ cur.is_modified = Zero \/ at_key)
        \cup Fail("s = c", \A i \in 1..HASH_WIDTH :
                      off \/ not_child \/ cur.s_advices[i] = cur.c_advices[i] \/ at_key)

(* "branch children" whose "last branch children" compares with 14 *)
branch_children_last_14(reg, r) ==
    LET cur == RowAt(reg, r)
        prev == RowAt(reg, r - 1)
        off == cur.q_not_first = Zero
        not_child == cur.is_branch_child = Zero
        index_zero == cur.node_index = Zero
    IN  Fail("before branch children",
             off \/ not_child \/ prev.is_branch_child = One \/ prev.is_branch_init = One)
        \cup Fail("first branch children 1",
                  off \/ prev.is_branch_init = Zero \/ cur.is_branch_child = One)
        \cup Fail("first branch children 2",
                  off \/ prev.is_branch_init = Zero \/ index_zero)
        \cup Fail("last branch children",
                  off \/ prev.is_branch_init = One
                      \/ prev.is_branch_child = cur.is_branch_child
                      \/ prev.node_index = u64(14))
        \cup Fail("node index increasing for branch children",
                  off \/ not_child \/ index_zero
                      \/ cur.node_index = FAdd(prev.node_index, One))
        \cup Fail("key the same for branch children",
                  off \/ not_child \/ index_zero \/ cur.key = prev.key)

(* gate "branch children" *)
branch_children(reg, r) ==
    LET cur == RowAt(reg, r)
        prev == RowAt(reg, r - 1)
        off == cur.q_not_first = Zero
        not_child == cur.is_branch_child = Zero
        index_zero == cur.node_index = Zero
    IN  Fail("before branch children",
             off \/ not_child \/ prev.is_branch_child = One \/ prev.is_branch_init = One)
        \cup Fail("first branch children 1",
                  off \/ prev.is_branch_init = Zero \/ cur.is_branch_child = One)
        \cup Fail("first branch children 2",
                  off \/ prev.is_branch_init = Zero \/ index_zero)
        \cup Fail("last branch children",
                  off \/ prev.is_branch_init = One
                      \/ prev.is_branch_child = cur.is_branch_child
                      \/ prev.node_index = u64(15))
        \cup Fail("node index increasing for branch children",
                  off \/ not_child \/ index_zero
                      \/ cur.node_index = FAdd(prev.node_index, One))
        \cup Fail("key the same for branch children",
                  off \/ not_child \/ index_zero \/ cur.key = prev.key)

(* "keccak constraints" whose Keccak-leaf constraint lacks the c_keccak factor *)
keccak_constraints_s_only(reg, r) ==
    LET cur == RowAt(reg, r)
        prev == RowAt(reg, r - 1)
        prev_2 == RowAt(reg, r - 2)
        prev_4 == RowAt(reg, r - 4)
        off == cur.q_not_first = Zero
        not_child == cur.is_branch_child = Zero
        index_zero == cur.node_index = Zero
        not_modified == cur.is_modified = Zero
        skip == off \/ not_child \/ not_modified
    IN  Fail("s_keccak the same for all branch children",
             \A i \in 1..KECCAK_OUTPUT_WIDTH :
                 off \/ not_child \/ index_zero \/ cur.s_keccak[i] = prev.s_keccak[i])
        \cup Fail("c_keccak the same for all branch children",
                  \A i \in 1..KECCAK_OUTPUT_WIDTH :
                      off \/ not_child \/ index_zero \/ cur.c_keccak[i] = prev.c_keccak[i])
        \cup Fail("keccak leaf output same as keccak in branch nodes",
                  \A i \in 1..KECCAK_OUTPUT_WIDTH :
                      off \/ cur.is_keccak_leaf = Zero
                          \/ cur.s_advices[KECCAK_INPUT_WIDTH + i] = prev_2.s_keccak[i])
        \cup Fail("s_keccak correspond to s_advices at the modified index",
                  skip \/ \A i \in 1..KECCAK_OUTPUT_WIDTH :
                              into_words_expr(cur.s_advices)[i] = cur.s_keccak[i])
        \cup Fail("c_keccak correspond to s_advices at the modified index",
                  skip \/ \A i \in 1..KECCAK_OUTPUT_WIDTH :
                              into_words_expr(cur.c_advices)[i] = cur.c_keccak[i])

(* gate "keccak constraints" *)
keccak_constraints(reg, r) ==
    LET cur == RowAt(reg, r)
        prev == RowAt(reg, r - 1)
        prev_2 == RowAt(reg, r - 2)
        prev_4 == RowAt(reg, r - 4)
        off == cur.q_not_first = Zero
        not_child == cur.is_branch_child = Zero
        index_zero == cur.node_index = Zero
        not_modified == cur.is_modified = Zero
        skip == off \/ not_child \/ not_modified
    IN  Fail("s_keccak the same for all branch children",
             \A i \in 1..KECCAK_OUTPUT_WIDTH :
                 off \/ not_child \/ index_zero \/ cur.s_keccak[i] = prev.s_keccak[i])
        \cup Fail("c_keccak the same for all branch children",
                  \A i \in 1..KECCAK_OUTPUT_WIDTH :
                      off \/ not_child \/ index_zero \/ cur.c_keccak[i] = prev.c_keccak[i])
        \cup Fail("keccak leaf output same as keccak in branch nodes",
                  \A i \in 1..KECCAK_OUTPUT_WIDTH :
                      off \/ cur.is_keccak_leaf = Zero
                          \/ cur.s_advices[KECCAK_INPUT_WIDTH + i] = prev_2.s_keccak[i]
                          \/ cur.s_advices[KECCAK_INPUT_WIDTH + i] = prev_4.c_keccak[i])
        \cup Fail("s_keccak correspond to s_advices at the modified index",
                  skip \/ \A i \in 1..KECCAK_OUTPUT_WIDTH :
                              into_words_expr(cur.s_advices)[i] = cur.s_keccak[i])
        \cup Fail("c_keccak correspond to s_advices at the modified index",
                  skip \/ \A i \in 1..KECCAK_OUTPUT_WIDTH :
                              into_words_expr(cur.c_advices)[i] = cur.c_keccak[i])

(* The input expressions of the lookup at row r *)
lookup_input(reg, r) ==
    LET cur == RowAt(reg, r)
    IN  [i \in 1..(KECCAK_INPUT_WIDTH + KECCAK_OUTPUT_WIDTH) |->
            FMul(FMul(cur.q_enable, cur.is_keccak_leaf), cur.s_advices[i])]

(* the loaded rows alone *)
table_rows_loaded_only(table) == {table[i] : i \in 1..Len(table)}

(* The rows of the table columns: the loaded rows, and the rows of the     *)
(* columns that load left unassigned, if any, which read as zero.          *)
table_rows(table) ==
    {table[i] : i \in 1..Len(table)}
        \cup (IF Len(table) < UsableRows
              THEN {Repeat(Zero, KECCAK_INPUT_WIDTH + KECCAK_OUTPUT_WIDTH)}
              ELSE {})

(* meta.lookup *)
keccak_lookup(reg, table, r) ==
    Fail("lookup", lookup_input(reg, r) \in table_rows(table))

(* MockProver::verify: every gate and the lookup on every row.  A row     *)
(* that was never assigned satisfies every gate (q_enable and q_not_first  *)
(* are 0 on it); its lookup input is the all-zero tuple.                   *)
verify(reg, table) ==
    UNION {{<<name, r>> : name \in general_constraints(reg, r)
                                   \cup branch_children(reg, r)
                                   \cup keccak_constraints(reg, r)
                                   \cup keccak_lookup(reg, table, r)}
           : r \in 0..(Len(reg) - 1)}
    \cup UNION {{<<name, r>> : name \in keccak_lookup(reg, table, r)}
                : r \in Len(reg)..(UsableRows - 1)}

----------------------------------------------------------------------------
(* Witnesses.  A witness row is its payload followed by the type tag.      *)
BRANCH_INIT == 0
BRANCH_CHILD == 1
COMPACT_LEAF == 2

(* Number of branch groups of the longest well-formed witness *)
MaxGroups == 2
(* Longest input of the codec *)
MaxInputLen == 137

Keys == 0..15

(* Payload lengths of the leaf rows: the shortest row assign_row reads,    *)
(* the full row width, and the two lengths around the rate of pad.         *)
LeafLens == {WITNESS_ROW_WIDTH \div 2 + 1, WITNESS_ROW_WIDTH, 135, 136}

Leaf(seed, len) == [j \in 1..len |-> (seed * 37 + j * 5 + 11) % BYTE]

SiblingHash(i) == [j \in 1..HASH_WIDTH |-> (i * 16 + j) % BYTE]

BranchInitRow(k) ==
    [j \in 1..WITNESS_ROW_WIDTH |-> IF j = 5 THEN k ELSE 0] \o <<BRANCH_INIT>>

ChildRow(s_hash, c_hash) ==
    <<0, 160>> \o s_hash \o <<0, 160>> \o c_hash \o <<BRANCH_CHILD>>

LeafRow(bytes) == bytes \o <<COMPACT_LEAF>>

(* n children of which child k carries the hashes s_mod / c_mod *)
Children(n, k, s_mod, c_mod) ==
    [i \in 1..n |-> IF i - 1 = k THEN ChildRow(s_mod, c_mod)
                    ELSE ChildRow(SiblingHash(i - 1), SiblingHash(i - 1))]

(* One branch group with n children and modified index k, then the leaves  *)
(* of the given lengths; the modified child records the digests sd / cd.   *)
Group(n, k, sd, cd, leaves) ==
    <<BranchInitRow(k)>> \o Children(n, k, sd, cd)
        \o [i \in 1..Len(leaves) |-> LeafRow(leaves[i])]

(* A group whose modified child records the digests of its two leaves *)
HonestGroup(n, k, l1, l2) ==
    Group(n, k, compute_keccak(l1), compute_keccak(l2), <<l1, l2>>)

(* ... and one with the S leaf only *)
SingleLeafGroup(n, k, l1) ==
    Group(n, k, compute_keccak(l1), SiblingHash(k), <<l1>>)

RECURSIVE Chain(_, _)
Chain(g, k) ==
    IF g = 0 THEN <<>>
    ELSE HonestGroup(16, (k + 5 * g) % 16, Leaf(2 * g + 1, WITNESS_ROW_WIDTH),
                     Leaf(2 * g + 2, WITNESS_ROW_WIDTH)) \o Chain(g - 1, k)

Replace(w, i, row) == [w EXCEPT ![i] = row]

(* the S hash of a child row changed in its first byte *)
TamperS(row) == [row EXCEPT ![S_START + 1] = (row[S_START + 1] + 1) % BYTE]

WellFormed ==
    {SingleLeafGroup(16, k, Leaf(1, len)) : k \in Keys, len \in LeafLens}
    \cup {HonestGroup(16, k, Leaf(1, len), Leaf(2, len)) : k \in Keys, len \in LeafLens}
    \cup {Chain(g, k) : g \in 2..MaxGroups, k \in {0, 9}}

(* scenario B: a sibling's s_hash changed; scenario C: a leaf byte changed *)
Tampered ==
    {Replace(HonestGroup(16, k, Leaf(1, 68), Leaf(2, 68)), j + 2,
             TamperS(ChildRow(SiblingHash(j), SiblingHash(j))))
        : k \in {0, 7}, j \in {3, 15}}
    \cup {Group(16, k, compute_keccak(Leaf(1, len)), compute_keccak(Leaf(2, len)),
                <<Leaf(3, len), Leaf(2, len)>>) : k \in {0, 15}, len \in {35, 136}}
    \cup {Group(16, k, compute_keccak(Leaf(1, 68)), compute_keccak(Leaf(2, 68)),
                <<Leaf(2, 68), Leaf(2, 68)>>) : k \in {4}}

(* groups with a child too few or too many, keys past the last child,      *)
(* rows with another tag, a lookahead past the end, a row too short        *)
Malformed ==
    {HonestGroup(n, k, Leaf(1, len), Leaf(2, len))
        : n \in {15, 17}, k \in {7, 15, 16}, len \in {35, 68}}
    \cup {Group(n, k, SiblingHash(k), SiblingHash(k), <<>>) : n \in {15, 16}, k \in {15, 16}}
    \cup {HonestGroup(16, k, Leaf(1, 68), Leaf(2, 68)) \o <<Leaf(1, 68) \o <<3>>>> : k \in {2}}
    \cup {<<Leaf(1, 68) \o <<3>>>> \o HonestGroup(16, k, Leaf(1, 68), Leaf(2, 68)) : k \in {2}}
    \cup {HonestGroup(16, k, Leaf(1, 68), Leaf(2, 68)) \o <<LeafRow(Leaf(1, 20))>> : k \in {2}}

(* a sibling row of WITNESS_ROW_WIDTH / 2 + 1 zero bytes; a group of 15    *)
(* children at the end of the stream or before the next group; child rows  *)
(* before the first BranchInit row; a second group whose lookahead is past *)
(* the end                                                                 *)
Irregular ==
    {Replace(HonestGroup(16, k, Leaf(1, 68), Leaf(2, 68)), 5,
             Repeat(0, WITNESS_ROW_WIDTH \div 2 + 1) \o <<BRANCH_CHILD>>) : k \in {2}}
    \cup {Group(15, k, SiblingHash(k), SiblingHash(k), <<>>) : k \in {7}}
    \cup {Group(15, k, SiblingHash(k), SiblingHash(k), <<>>)
              \o HonestGroup(16, k, Leaf(1, 68), Leaf(2, 68)) : k \in {7}}
    \cup {<<ChildRow(SiblingHash(1), SiblingHash(1))>>
              \o HonestGroup(16, k, Leaf(1, 68), Leaf(2, 68)) : k \in {0, 2}}
    \cup {HonestGroup(16, k, Leaf(1, 68), Leaf(2, 68))
              \o Group(16, 16, SiblingHash(k), SiblingHash(k), <<>>) : k \in {2}}

(* witnesses that need more rows than there are: UsableRows + 1 leaves     *)
(* (more pre-images than table rows, too); a child row and leaves, the     *)
(* last of which has its data row on the last usable row; groups of 16     *)
(* children without leaves                                                 *)
Oversize ==
    {[i \in 1..(UsableRows + 1) |-> LeafRow(Leaf(i, WITNESS_ROW_WIDTH \div 2 + 1))]}
    \cup {<<ChildRow(SiblingHash(1), SiblingHash(1))>>
              \o [i \in 1..(UsableRows \div 2) |->
                     LeafRow(Leaf(i, WITNESS_ROW_WIDTH \div 2 + 1))]}
    \cup {[j \in 1..(17 * (UsableRows \div 17 + 1)) |->
              Group(16, 0, SiblingHash(0), SiblingHash(0), <<>>)[((j - 1) % 17) + 1]]}

(* a witness that starts with a leaf row *)
LeafFirst ==
    {<<LeafRow(Leaf(1, WITNESS_ROW_WIDTH))>>,
     <<LeafRow(Leaf(1, WITNESS_ROW_WIDTH))>>
        \o HonestGroup(16, 2, Leaf(1, WITNESS_ROW_WIDTH), Leaf(2, WITNESS_ROW_WIDTH))}

Witnesses ==
    WellFormed \cup Tampered \cup Malformed \cup Irregular \cup Oversize \cup LeafFirst

(* Inputs of pad: every length up to MaxInputLen, in three fillings *)
CodecInputs ==
    {[j \in 1..n |-> (j * f) % BYTE] : n \in 0..MaxInputLen, f \in {0, 1, 255}}

----------------------------------------------------------------------------
Idle == /\ witness = <<>> /\ to_be_hashed = <<>>
        /\ ind = 0 /\ offset = 0 /\ key = 0 /\ branch_ind = 0
        /\ s_words = <<Zero, Zero, Zero, Zero>>
        /\ c_words = <<Zero, Zero, Zero, Zero>>
        /\ writes = NoWrites

(* tests::test_mpt: a witness is read, synthesize collects the leaves,     *)
(* then load and assign run; assign starts with the locals of lines 714-719 *)
Init ==
    /\ witness \in Witnesses
    /\ to_be_hashed = LeafPreimages(witness)
    /\ pc = "load"
    /\ ind = 0 /\ offset = 0 /\ key = 0 /\ branch_ind = 0
    /\ s_words = <<Zero, Zero, Zero, Zero>>
    /\ c_words = <<Zero, Zero, Zero, Zero>>
    /\ region = <<>> /\ keccak_table = <<>> /\ failures = {}
    /\ input = <<>> /\ padded = <<>> /\ words = <<>>
    /\ writes = NoWrites

(* MPTConfig::load: the table is loaded, the Result of load_keccak_table   *)
(* is dropped (line 807) and Ok(()) returned, so synthesize goes on to     *)
(* assign                                                                  *)
Load ==
    /\ pc = "load"
    /\ keccak_table' = load_keccak_table(to_be_hashed)
    /\ pc' = "assign"
    /\ UNCHANGED <<writes, witness, to_be_hashed, ind, offset, key, s_words, c_words,
                   branch_ind, region, failures, input, padded, words>>

(* The row that the loop of assign is at *)
Current == witness[ind + 1]

(* the lookahead index held inside the witness *)
LookaheadClamped ==
    IF ind + 1 + At(Current, 4) >= Len(witness)
    THEN Len(witness) - 1 ELSE ind + 1 + At(Current, 4)

(* The lookahead of the branch-init arm: witness[ind + 1 + key] *)
Lookahead == ind + 1 + At(Current, 4)

(* The write of one loop iteration that returns Err: the first write to a  *)
(* row outside the usable rows, q_enable.enable at offset in every arm or  *)
(* at offset + 1 in assign_leaf, unless an index panics before it.         *)
write_fails ==
    IF Tag(Current) = BRANCH_INIT
    THEN IF Lookahead >= Len(witness) THEN FALSE
         ELSE IF Len(At(witness, Lookahead)) < C_START + HASH_WIDTH THEN FALSE
         ELSE out_of_rows(offset)
    ELSE IF Tag(Current) = BRANCH_CHILD
    THEN out_of_rows(offset)
    ELSE IF Tag(Current) = COMPACT_LEAF
    THEN IF out_of_rows(offset) THEN TRUE
         ELSE IF assign_row_panics(Payload(Current)) THEN FALSE
         ELSE out_of_rows(offset + 1)
    ELSE FALSE

(* The indexing of one loop iteration that panics: the lookahead past the  *)
(* end of the witness, a slice past the end of the row it reads, or a row  *)
(* too short for assign_row, unless a write returns Err before it.         *)
iteration_panics ==
    IF Tag(Current) = BRANCH_INIT
    THEN IF Lookahead >= Len(witness) THEN TRUE
         ELSE IF Len(At(witness, Lookahead)) < C_START + HASH_WIDTH THEN TRUE
         ELSE IF out_of_rows(offset) THEN FALSE
         ELSE assign_row_panics(Payload(Current))
    ELSE IF Tag(Current) \in {BRANCH_CHILD, COMPACT_LEAF}
    THEN IF out_of_rows(offset) THEN FALSE
         ELSE assign_row_panics(Payload(Current))
    ELSE FALSE

(* assign, tag 0 (lines 721-757) *)
AssignBranchInit ==
    /\ pc = "assign" /\ ind < Len(witness)
    /\ Tag(Current) = BRANCH_INIT
    /\ ~iteration_panics /\ ~write_fails
    /\ key' = At(Current, 4)
    /\ branch_ind' = 0
    /\ s_words' = into_words(Slice(At(witness, Lookahead), S_START, S_START + HASH_WIDTH))
    /\ c_words' = into_words(Slice(At(witness, Lookahead), C_START, C_START + HASH_WIDTH))
    /\ region' = assign_branch_init(enable(region, offset, ind # 0), Payload(Current), offset)
    /\ writes' = record_writes(writes, enable_log(offset) \o assign_branch_init_log(offset))
    /\ offset' = offset + 1
    /\ ind' = ind + 1
    /\ UNCHANGED <<pc, witness, to_be_hashed, keccak_table, failures, input, padded, words>>

(* the branch-child arm without the increment of branch_ind *)
AssignBranchChildStuck ==
    /\ pc = "assign" /\ ind < Len(witness)
    /\ Tag(Current) = BRANCH_CHILD
    /\ ~iteration_panics /\ ~write_fails
    /\ region' = assign_branch_row(enable(region, offset, TRUE), branch_ind, key,
                                   Payload(Current), s_words, c_words, offset)
    /\ writes' = record_writes(writes, enable_log(offset) \o assign_branch_row_log(offset))
    /\ offset' = offset + 1
    /\ ind' = ind + 1
    /\ UNCHANGED <<pc, witness, to_be_hashed, key, s_words, c_words, keccak_table,
                   failures, input, padded, words, branch_ind>>

(* assign, tag 1 (lines 758-777) *)
AssignBranchChild ==
    /\ pc = "assign" /\ ind < Len(witness)
    /\ Tag(Current) = BRANCH_CHILD
    /\ ~iteration_panics /\ ~write_fails
    /\ region' = assign_branch_row(enable(region, offset, TRUE), branch_ind, key,
                                   Payload(Current), s_words, c_words, offset)
    /\ writes' = record_writes(writes, enable_log(offset) \o assign_branch_row_log(offset))
    /\ offset' = offset + 1
    /\ branch_ind' = (branch_ind + 1) % BYTE
    /\ ind' = ind + 1
    /\ UNCHANGED <<pc, witness, to_be_hashed, key, s_words, c_words, keccak_table,
                   failures, input, padded, words>>

(* assign, tag 2 (lines 778-793) *)
AssignLeaf ==
    /\ pc = "assign" /\ ind < Len(witness)
    /\ Tag(Current) = COMPACT_LEAF
    /\ ~iteration_panics /\ ~write_fails
    /\ region' = assign_leaf(enable(region, offset, TRUE), Payload(Current), offset)
    /\ writes' = record_writes(writes, enable_log(offset) \o assign_leaf_log(offset))
    /\ offset' = offset + 2
    /\ ind' = ind + 1
    /\ UNCHANGED <<pc, witness, to_be_hashed, key, s_words, c_words, branch_ind,
                   keccak_table, failures, input, padded, words>>

(* assign, any other tag: no arm of the if chain is taken *)
AssignSkip ==
    /\ pc = "assign" /\ ind < Len(witness)
    /\ Tag(Current) \notin {BRANCH_INIT, BRANCH_CHILD, COMPACT_LEAF}
    /\ ind' = ind + 1
    /\ UNCHANGED <<writes, pc, witness, to_be_hashed, offset, key, s_words, c_words, branch_ind,
                   region, keccak_table, failures, input, padded, words>>

(* an index out of range aborts assign *)
AssignPanic ==
    /\ pc = "assign" /\ ind < Len(witness)
    /\ iteration_panics
    /\ pc' = "panic"
    /\ UNCHANGED <<writes, witness, to_be_hashed, ind, offset, key, s_words, c_words, branch_ind,
                   region, keccak_table, failures, input, padded, words>>

(* a write returns Err: the closure returns it through `?`, assign_region  *)
(* returns it, .ok() (line 799) drops it and assign returns as it does     *)
(* after the last row.  Only a leaf whose Keccak row is the first row      *)
(* outside the usable rows has written cells: its data row.                *)
AssignError ==
    /\ pc = "assign" /\ ind < Len(witness)
    /\ write_fails
    /\ region' = IF out_of_rows(offset) THEN region
                 ELSE assign_leaf_data(enable(region, offset, TRUE), Payload(Current), offset)
    /\ writes' = IF out_of_rows(offset) THEN writes
                 ELSE record_writes(writes, enable_log(offset) \o assign_row_log(offset))
    /\ pc' = "done"
    /\ UNCHANGED <<witness, to_be_hashed, ind, offset, key, s_words, c_words, branch_ind,
                   keccak_table, failures, input, padded, words>>

(* the loop ends: the closure returns Ok(()), assign returns *)
AssignDone ==
    /\ pc = "assign" /\ ind = Len(witness)
    /\ pc' = "done"
    /\ UNCHANGED <<writes, witness, to_be_hashed, ind, offset, key, s_words, c_words, branch_ind,
                   region, keccak_table, failures, input, padded, words>>

(* tests::test_mpt: MockProver::run(..).verify() *)
Verify ==
    /\ pc = "done"
    /\ failures' = verify(region, keccak_table)
    /\ pc' = "verified"
    /\ UNCHANGED <<writes, witness, to_be_hashed, ind, offset, key, s_words, c_words, branch_ind,
                   region, keccak_table, input, padded, words>>

Next == Load \/ AssignBranchInit \/ AssignBranchChild \/ AssignLeaf \/ AssignSkip
        \/ AssignPanic \/ AssignError \/ AssignDone \/ Verify

Spec == Init /\ [][Next]_vars

----------------------------------------------------------------------------
(* The codec on its own: pad, then into_words, of every input *)
InitCodec ==
    /\ Idle
    /\ input \in CodecInputs
    /\ pc = "pad"
    /\ region = <<>> /\ keccak_table = <<>> /\ failures = {}
    /\ padded = <<>> /\ words = <<>>

Pad ==
    /\ pc = "pad"
    /\ padded' = pad(input)
    /\ pc' = "into_words"
    /\ UNCHANGED <<writes, witness, to_be_hashed, ind, offset, key, s_words, c_words, branch_ind,
                   region, keccak_table, failures, input, words>>

IntoWords ==
    /\ pc = "into_words"
    /\ words' = into_words(padded)
    /\ pc' = "packed"
    /\ UNCHANGED <<writes, witness, to_be_hashed, ind, offset, key, s_words, c_words, branch_ind,
                   region, keccak_table, failures, input, padded>>

NextCodec == Pad \/ IntoWords

SpecCodec == InitCodec /\ [][NextCodec]_vars

----------------------------------------------------------------------------
(* The gates on assignments that need not come from assign: a prover may   *)
(* fill the advice columns as it likes.  The assignments are rows as       *)
(* assign writes them with some cells replaced.                            *)

(* Child payloads: both halves equal, or the S half differing from the C   *)
(* half in s_rlp1, s_rlp2, the first or the last hash byte.                *)
ChildPayloads ==
    LET same == Payload(ChildRow(SiblingHash(2), SiblingHash(2)))
    IN  {same} \cup {[same EXCEPT ![p] = (same[p] + 1) % BYTE]
                        : p \in {1, 2, S_START + 1, S_START + HASH_WIDTH}}

(* One branch-child row at offset 0 *)
ChildRowRegions ==
    {LET reg == assign_branch_row(enable(<<>>, 0, nf), n, k, payload,
                                  into_words(SHash(payload)),
                                  into_words(CHash(payload)), 0)
     IN  <<[reg[1] EXCEPT !.q_enable = qe, !.is_branch_child = child,
                          !.is_modified = modified]>>
        : nf \in BOOLEAN, n \in {0, 3, 15}, k \in {0, 3}, payload \in ChildPayloads,
          qe \in {Zero, One}, child \in {Zero, One}, modified \in {Zero, One, u64(2)}}

(* Two branch-child rows, a leaf row and its Keccak row at offsets 0..4;   *)
(* the rows at offsets 0 and 2 carry the c_keccak and s_keccak registers   *)
(* that the Keccak row is compared with, and each digest word of the       *)
(* Keccak row is the S word, the C word or another value.                  *)
DigestChoices(sw, cw) ==
    {[i \in 1..KECCAK_OUTPUT_WIDTH |->
         IF i \in from_s THEN sw[i] ELSE IF i \in from_c THEN cw[i] ELSE u64(i)]
        : from_s \in SUBSET (1..KECCAK_OUTPUT_WIDTH), from_c \in SUBSET {1, 4}}

KeccakRowRegions ==
    {LET payload == Payload(ChildRow(s_hash, c_hash))
         sw == into_words(s_hash)
         cw == into_words(c_hash)
         r0 == assign_branch_row(enable(<<>>, 0, FALSE), 13, 13, payload, sw, cw, 0)
         r1 == assign_branch_row(enable(r0, 1, TRUE), 14, 13, payload, sw, cw, 1)
         r2 == assign_branch_row(enable(r1, 2, TRUE), 15, 13, payload, sw, cw, 2)
         r4 == assign_leaf(enable(r2, 3, TRUE), Leaf(1, WITNESS_ROW_WIDTH), 3)
         krow == [r4[5] EXCEPT
                     !.q_not_first = nf,
                     !.is_keccak_leaf = leaf,
                     !.s_advices = [i \in 1..HASH_WIDTH |->
                         IF i > KECCAK_INPUT_WIDTH
                            /\ i <= KECCAK_INPUT_WIDTH + KECCAK_OUTPUT_WIDTH
                         THEN digest[i - KECCAK_INPUT_WIDTH] ELSE @[i]]]
     IN  [r4 EXCEPT ![5] = krow]
        : s_hash \in {SiblingHash(1)}, c_hash \in {SiblingHash(1), SiblingHash(2)},
          digest \in DigestChoices(into_words(SiblingHash(1)), into_words(SiblingHash(2))),
          nf \in {Zero, One}, leaf \in {Zero, One}}

(* A branch-init row, branch-child rows with the node_index values of seq, *)
(* then a leaf row and its Keccak row, the next branch-init row, or no     *)
(* row.  Every child row carries the digest of the leaf in both halves.    *)
(* Each row is written as assign writes it; the rows are then put one      *)
(* after the other.                                                        *)
RunChild(index, k) ==
    LET h == compute_keccak(Leaf(1, WITNESS_ROW_WIDTH))
    IN  assign_branch_row(enable(<<>>, 0, TRUE), index, k, Payload(ChildRow(h, h)),
                          into_words(h), into_words(h), 0)

RunRegion(seq, k, tail) ==
    assign_branch_init(enable(<<>>, 0, FALSE), Payload(BranchInitRow(k)), 0)
        \o [i \in 1..Len(seq) |-> RunChild(seq[i], k)[1]]
        \o (IF tail = "leaf"
            THEN assign_leaf(enable(<<>>, 0, TRUE), Leaf(1, WITNESS_ROW_WIDTH), 0)
            ELSE IF tail = "init"
            THEN assign_branch_init(enable(<<>>, 0, TRUE), Payload(BranchInitRow(k)), 0)
            ELSE <<>>)

Upto(a, b) == [i \in 1..(b - a + 1) |-> a + i - 1]

(* 0..15; one short; one long; a second 0 after the first row; a second    *)
(* start after 8 rows; index 7 left out; a start at 1                      *)
Runs ==
    {Upto(0, 15), Upto(0, 14), Upto(0, 16), <<0>> \o Upto(0, 15),
     Upto(0, 7) \o Upto(0, 15), Upto(0, 6) \o Upto(8, 15), Upto(1, 15)}

RunRegions ==
    {RunRegion(seq, k, tail) : seq \in Runs, k \in {0, 3}, tail \in {"leaf", "init", "none"}}

(* A run in two parts: the child rows of the first part carry the key k1   *)
(* and the hash h1 (in both halves and in s_keccak / c_keccak), those of   *)
(* the second part the key k2 and the digest of the leaf.                  *)
RunChildWith(index, k, h) ==
    assign_branch_row(enable(<<>>, 0, TRUE), index, k, Payload(ChildRow(h, h)),
                      into_words(h), into_words(h), 0)

MixedRegion(seq1, k1, h1, seq2, k2, tail) ==
    assign_branch_init(enable(<<>>, 0, FALSE), Payload(BranchInitRow(k1)), 0)
        \o [i \in 1..Len(seq1) |-> RunChildWith(seq1[i], k1, h1)[1]]
        \o [i \in 1..Len(seq2) |-> RunChild(seq2[i], k2)[1]]
        \o (IF tail = "leaf"
            THEN assign_leaf(enable(<<>>, 0, TRUE), Leaf(1, WITNESS_ROW_WIDTH), 0)
            ELSE <<>>)

MixedRegions ==
    {MixedRegion(Upto(0, 7), 3, h1, seq2, k2, tail)
        : h1 \in {SiblingHash(1), compute_keccak(Leaf(1, WITNESS_ROW_WIDTH))},
          seq2 \in {Upto(0, 15), Upto(8, 15)}, k2 \in {3, 5}, tail \in {"leaf", "none"}}

(* A Keccak row alone whose 21 words are all zero *)
ZeroKeccakRegions ==
    {<<[assign_leaf(enable(<<>>, 0, TRUE), Leaf(1, WITNESS_ROW_WIDTH), 0)[2]
           EXCEPT !.s_advices = Repeat(Zero, HASH_WIDTH), !.q_not_first = nf]>>
        : nf \in {Zero, One}}

GateRegions ==
    ChildRowRegions \cup KeccakRowRegions \cup RunRegions \cup MixedRegions
        \cup ZeroKeccakRegions

(* A table that fills every usable row, and the regions verified with it *)
FullTable ==
    load_keccak_table([i \in 1..UsableRows |->
        IF i = 1 THEN Leaf(1, WITNESS_ROW_WIDTH) ELSE Leaf(i, WITNESS_ROW_WIDTH \div 2 + 1)])

FullTableRegions ==
    {RunRegion(Upto(0, 15), 3, tail) : tail \in {"leaf", "none"}}

InitGate ==
    /\ Idle
    /\ \/ /\ region \in GateRegions
          /\ keccak_table = load_keccak_table(<<Leaf(1, WITNESS_ROW_WIDTH)>>)
       \/ /\ region \in FullTableRegions
          /\ keccak_table = FullTable
    /\ pc = "done"
    /\ failures = {}
    /\ input = <<>> /\ padded = <<>> /\ words = <<>>

NextGate == Verify

SpecGate == InitGate /\ [][NextGate]_vars

----------------------------------------------------------------------------
(* Helpers of the properties *)

(* Scenario A: one BranchInit row with key k in 0..15, exactly 16 full     *)
(* BranchChild rows whose S and C halves agree except at child k, then one *)
(* or two CompactLeaf rows, wide enough for assign_row, whose digests are  *)
(* the s_hash (and the c_hash) of child k.                                 *)
ScenarioA(w) ==
    /\ Len(w) \in {18, 19}
    /\ Tag(w[1]) = BRANCH_INIT
    /\ Len(w[1]) = WITNESS_ROW_WIDTH + 1
    /\ At(w[1], 4) \in Keys
    /\ \A i \in 0..15 :
          /\ Tag(w[i + 2]) = BRANCH_CHILD
          /\ Len(w[i + 2]) = WITNESS_ROW_WIDTH + 1
          /\ i # At(w[1], 4) => SHalf(w[i + 2]) = CHalf(w[i + 2])
    /\ \A i \in 18..Len(w) :
          /\ Tag(w[i]) = COMPACT_LEAF
          /\ Len(Payload(w[i])) > WITNESS_ROW_WIDTH \div 2
    /\ compute_keccak(Payload(w[18])) = SHash(w[At(w[1], 4) + 2])
    /\ Len(w) = 19 => compute_keccak(Payload(w[19])) = CHash(w[At(w[1], 4) + 2])

(* C1: a Scenario A witness, with the table loaded from its leaves, is     *)
(* assigned without a panic, and once verified no constraint of the three  *)
(* gates nor the lookup fails on any row.                                  *)
C1_HappyPath ==
    (ScenarioA(witness) /\ to_be_hashed = LeafPreimages(witness))
        => /\ pc # "panic"
           /\ pc = "verified" => failures = {}

C1_Witness ==
    /\ pc = "verified" /\ ScenarioA(witness) /\ Len(witness) = 19
    /\ At(witness[1], 4) = 7
    /\ SHash(witness[9]) # CHash(witness[9])
    /\ Len(region) = 21 /\ failures = {}

----------------------------------------------------------------------------
(* Branch groups of a witness: a BranchInit row and the BranchChild rows   *)
(* after it, up to the next BranchInit row or the end of the stream.       *)
InitRows(w) == {g \in 1..Len(w) : Tag(w[g]) = BRANCH_INIT}

GroupChildren(w, g) ==
    {j \in (g + 1)..Len(w) :
        /\ Tag(w[j]) = BRANCH_CHILD
        /\ \A m \in (g + 1)..j : Tag(w[m]) # BRANCH_INIT}

(* The offset at which assign emits witness row j *)
OffsetOf(w, j) ==
    Cardinality({m \in 1..(j - 1) : Tag(w[m]) \in {BRANCH_INIT, BRANCH_CHILD}})
        + 2 * Cardinality({m \in 1..(j - 1) : Tag(w[m]) = COMPACT_LEAF})

Emitted(j) == RowAt(region, OffsetOf(witness, j))

Modified(g) == {j \in GroupChildren(witness, g) : Emitted(j).is_modified = One}

(* assign has returned after the last witness row (and not because a      *)
(* write returned Err)                                                     *)
Assigned == pc \in {"done", "verified"} /\ ind = Len(witness)

----------------------------------------------------------------------------
Rows == 0..(Len(region) - 1)

Failed(name, r) == <<name, r>> \in failures

GeneralNames ==
    {"bool check is branch init", "bool check is branch child",
     "bool check is compact leaf", "bool check is keccak leaf", "rlp 1", "rlp 2",
     "bool check is_modified", "is modified", "s = c"}

SatisfiesGeneral(r) == \A name \in GeneralNames : ~Failed(name, r)

EnabledChild(r) ==
    RowAt(region, r).q_enable = One /\ RowAt(region, r).is_branch_child = One

HalvesEqual(row) ==
    /\ row.s_rlp1 = row.c_rlp1
    /\ row.s_rlp2 = row.c_rlp2
    /\ \A i \in 1..HASH_WIDTH : row.s_advices[i] = row.c_advices[i]

(* C3: once verified, an enabled branch-child row with node_index # key on *)
(* which no "general constraints" constraint fails has equal S and C cells *)
(* (rlp1, rlp2, 32 hash bytes); and such a row as assign writes it for a   *)
(* child whose hash bytes differ is reported under "s = c".                *)
C3_SiblingsUnchanged ==
    pc = "verified" =>
        \A r \in Rows :
            (EnabledChild(r) /\ RowAt(region, r).node_index # RowAt(region, r).key)
            => /\ SatisfiesGeneral(r) => HalvesEqual(RowAt(region, r))
               /\ RowAt(region, r).s_advices # RowAt(region, r).c_advices
                     => Failed("s = c", r)

C3_Witness ==
    /\ pc = "verified"
    /\ \E r \in Rows :
          /\ EnabledChild(r)
          /\ RowAt(region, r).node_index # RowAt(region, r).key
          /\ RowAt(region, r).s_advices[1] # RowAt(region, r).c_advices[1]
          /\ RowAt(region, r).s_rlp1 = RowAt(region, r).c_rlp1
          /\ Failed("s = c", r)

KeccakLeafName == "keccak leaf output same as keccak in branch nodes"

Digest(r, i) == RowAt(region, r).s_advices[KECCAK_INPUT_WIDTH + i]

ActiveKeccakLeaf(r) ==
    RowAt(region, r).is_keccak_leaf = One /\ RowAt(region, r).q_not_first = One

(* C5 as stated: the gate accepts an active Keccak-leaf row only if every  *)
(* digest word equals both s_keccak two rows back and c_keccak four rows   *)
(* back.                                                                   *)
C5_Original ==
    pc = "verified" =>
        \A r \in Rows :
            (ActiveKeccakLeaf(r) /\ ~Failed(KeccakLeafName, r))
            => \A i \in 1..KECCAK_OUTPUT_WIDTH :
                  /\ Digest(r, i) = RowAt(region, r - 2).s_keccak[i]
                  /\ Digest(r, i) = RowAt(region, r - 4).c_keccak[i]

(* C5 amended: the gate accepts an active Keccak-leaf row exactly when     *)
(* every digest word equals s_keccak two rows back or c_keccak four rows   *)
(* back, word by word.                                                     *)
C5_EitherRegister ==
    pc = "verified" =>
        \A r \in Rows :
            ActiveKeccakLeaf(r)
            => (~Failed(KeccakLeafName, r)
                <=> \A i \in 1..KECCAK_OUTPUT_WIDTH :
                       \/ Digest(r, i) = RowAt(region, r - 2).s_keccak[i]
                       \/ Digest(r, i) = RowAt(region, r - 4).c_keccak[i])

C5_Witness ==
    /\ pc = "verified"
    /\ \E r \in Rows :
          /\ ActiveKeccakLeaf(r) /\ ~Failed(KeccakLeafName, r)
          /\ Digest(r, 1) = RowAt(region, r - 2).s_keccak[1]
          /\ Digest(r, 1) # RowAt(region, r - 4).c_keccak[1]
          /\ Digest(r, 4) = RowAt(region, r - 4).c_keccak[4]
          /\ Digest(r, 4) # RowAt(region, r - 2).s_keccak[4]

(* C6 as stated: once verified, on an enabled branch-child row on which no *)
(* "general constraints" constraint fails, is_modified = 1 exactly when    *)
(* node_index = key.                                                       *)
C6_Claim ==
    pc = "verified" =>
        \A r \in Rows :
            (EnabledChild(r) /\ SatisfiesGeneral(r))
            => (RowAt(region, r).is_modified = One
                <=> RowAt(region, r).node_index = RowAt(region, r).key)

(* The layout branch-init, 16 branch children, leaf, Keccak, leaf, Keccak *)
TwoLeafLayout ==
    /\ Len(region) = 21
    /\ RowAt(region, 0).is_branch_init = One
    /\ \A r \in 1..16 : RowAt(region, r).is_branch_child = One
    /\ \A r \in {17, 19} : RowAt(region, r).is_compact_leaf = One
    /\ \A r \in {18, 20} : RowAt(region, r).is_keccak_leaf = One

(* C4 as stated: in a verified assignment of that layout on which no       *)
(* constraint fails, the digest words of the first Keccak row are the      *)
(* word-packing of the modified child's s_hash (the group's s_keccak) and  *)
(* those of the second Keccak row the word-packing of its c_hash (the      *)
(* group's c_keccak).                                                      *)
C4_Claim ==
    (pc = "verified" /\ failures = {} /\ TwoLeafLayout) =>
        \A r \in 1..16 :
            RowAt(region, r).node_index = RowAt(region, r).key
            => \A i \in 1..KECCAK_OUTPUT_WIDTH :
                  /\ Digest(18, i) = into_words_expr(RowAt(region, r).s_advices)[i]
                  /\ Digest(18, i) = RowAt(region, r).s_keccak[i]
                  /\ Digest(20, i) = into_words_expr(RowAt(region, r).c_advices)[i]
                  /\ Digest(20, i) = RowAt(region, r).c_keccak[i]

----------------------------------------------------------------------------
(* The 17 pre-image words and the 4 digest words of a 21-word row *)
InputWords(row21) == [i \in 1..KECCAK_INPUT_WIDTH |-> row21[i]]
OutputWords(row21) == [i \in 1..KECCAK_OUTPUT_WIDTH |-> row21[KECCAK_INPUT_WIDTH + i]]

LeafRows(w) == {j \in 1..Len(w) : Tag(w[j]) = COMPACT_LEAF}

(* C7 as stated: after load and assign, the Keccak row of every            *)
(* CompactLeaf row x holds into_words(pad(x)) in s_advices[0..16] and      *)
(* into_words(keccak256(x)) in s_advices[17..20], and these 21 words are a *)
(* row of the Keccak table.                                                *)
C7_Claim ==
    Assigned =>
        \A j \in LeafRows(witness) :
            LET x == Payload(witness[j])
                krow == RowAt(region, OffsetOf(witness, j) + 1)
            IN  /\ InputWords(krow.s_advices) = into_words(pad(x))
                /\ OutputWords(krow.s_advices) = into_words(compute_keccak(x))
                /\ \E t \in 1..Len(keccak_table) :
                      keccak_table[t] = InputWords(krow.s_advices)
                                            \o OutputWords(krow.s_advices)

(* C8 as stated: load writes one table row per pre-image, in input order,  *)
(* and row i holds into_words(pad(p_i)) in the 17 input columns and        *)
(* into_words(keccak256(p_i)) in the 4 output columns, also for a          *)
(* pre-image whose padded length exceeds 136 bytes.                        *)
C8_Claim ==
    pc # "load" =>
        /\ Len(keccak_table) = Len(to_be_hashed)
        /\ \A i \in 1..Len(to_be_hashed) :
              /\ InputWords(keccak_table[i]) = into_words(pad(to_be_hashed[i]))
              /\ OutputWords(keccak_table[i])
                    = into_words(compute_keccak(to_be_hashed[i]))

(* C9: pad appends 136 - (n mod 136) bytes to an input of n bytes: 0x81    *)
(* alone when that is one byte, otherwise 0x01, zero bytes and a final     *)
(* 0x80; the input is a prefix of the result, whose length is a multiple   *)
(* of 136.                                                                 *)
C9_PadShape ==
    pc \in {"into_words", "packed"} =>
        LET n == Len(input)
            total == 136 - (n % 136)
            appended == SubSeq(padded, n + 1, Len(padded))
        IN  /\ Len(padded) = n + total
            /\ Len(padded) % 136 = 0
            /\ SubSeq(padded, 1, n) = input
            /\ total = 1 => appended = <<129>>
            /\ total > 1 => /\ appended[1] = 1
                            /\ appended[total] = 128
                            /\ \A m \in 2..(total - 1) : appended[m] = 0

C9_Witness ==
    /\ pc = "into_words" /\ Len(input) = 135 /\ input[135] = 135
    /\ Len(padded) = 136 /\ padded[136] = 129

(* The 8 little-endian bytes of a 64-bit word *)
to_le_bytes(word) ==
    LET digits == Digits(word) IN digits \o Repeat(0, 8 - Len(digits))

(* C10: into_words(pad(x)) has ceil((len(x) + 1) / 136) * 136 / 8 words,   *)
(* 17 for len(x) <= 135 and 34 for len(x) = 136, and word i is the         *)
(* little-endian 64-bit value of bytes 8i .. 8i + 7 of pad(x).             *)
C10_WordCount ==
    pc = "packed" =>
        /\ Len(words) = (((Len(input) + 1 + 135) \div 136) * 136) \div 8
        /\ Len(input) <= 135 => Len(words) = 17
        /\ Len(input) = 136 => Len(words) = 34
        /\ \A i \in 1..Len(words) :
              to_le_bytes(words[i]) = SubSeq(padded, 8 * i - 7, 8 * i)

C10_Witness ==
    /\ pc = "packed" /\ Len(input) = 136 /\ Len(words) = 34
    /\ input[2] = 2
    /\ words[1] = <<1 + 2 * BYTE, 3 + 4 * BYTE, 5 + 6 * BYTE, 7 + 8 * BYTE>>
    /\ words[34] = <<0, 0, 0, 128 * BYTE>>

----------------------------------------------------------------------------
(* The bytes of a word sequence, 8 little-endian bytes per word *)
unpack(ws) ==
    [j \in 1..(8 * Len(ws)) |-> to_le_bytes(ws[(j - 1) \div 8 + 1])[((j - 1) % 8) + 1]]

(* The padding of pad removed: a final 0x81, or a final 0x80, the zero     *)
(* bytes before it and the 0x01 before those.                              *)
strip_padding(b) ==
    LET n == Len(b)
    IN  IF b[n] = 129 THEN SubSeq(b, 1, n - 1)
        ELSE LET marks == {m \in 1..(n - 1) : b[m] # 0}
             IN  IF marks = {} THEN <<>>
                 ELSE LET last == CHOOSE m \in marks : \A k \in marks : k <= m
                      IN  SubSeq(b, 1, last - 1)

(* C11: the words of into_words(pad(x)), unpacked to little-endian bytes   *)
(* and stripped of the padding, are x again; and no other input y has the  *)
(* same word sequence as x.                                                *)
C11_RoundTrip ==
    pc = "packed" =>
        /\ strip_padding(unpack(words)) = input
        /\ \A y \in CodecInputs : into_words(pad(y)) = words => y = input

C11_Witness ==
    /\ pc = "packed" /\ Len(input) = 128 /\ input[128] = 128
    /\ Len(words) = 17
    /\ strip_padding(unpack(words)) = input

----------------------------------------------------------------------------
(* C12 as stated: assign does not complete on a witness that has a row     *)
(* whose type tag is not 0, 1 or 2.                                        *)
C12_Claim ==
    Assigned => \A j \in 1..Len(witness) :
                    Tag(witness[j]) \in {BRANCH_INIT, BRANCH_CHILD, COMPACT_LEAF}

(* The BranchInit rows whose lookahead index is past the end of the witness *)
LookaheadPastEnd(w) == {g \in InitRows(w) : g + At(w[g], 4) >= Len(w)}

(* C13: a BranchInit row whose lookahead index ind + 1 + key is past the   *)
(* end of the witness is never assigned: the loop does not get past it,    *)
(* assign does not complete, and no row at or after the offset of its      *)
(* group is written.                                                       *)
C13_LookaheadRejected ==
    \A g \in LookaheadPastEnd(witness) :
        /\ ind < g
        /\ ~Assigned
        /\ Len(region) <= OffsetOf(witness, g)

C13_Witness ==
    /\ pc = "panic" /\ ind = 19 /\ Tag(Current) = BRANCH_INIT
    /\ Lookahead >= Len(witness)
    /\ offset = 21 /\ Len(region) = 21

(* C14 as stated: no row of type 0, 1 or 2 whose payload is narrower than  *)
(* WITNESS_ROW_WIDTH gets through an iteration of assign.                  *)
C14_Claim ==
    \A j \in 1..ind :
        Tag(witness[j]) \in {BRANCH_INIT, BRANCH_CHILD, COMPACT_LEAF}
            => Len(Payload(witness[j])) >= WITNESS_ROW_WIDTH

----------------------------------------------------------------------------
LastName == "last branch children"
IncreasingName == "node index increasing for branch children"

(* A group of exactly 15 BranchChild rows right after its BranchInit row,  *)
(* followed by a leaf row or by the next BranchInit row.                   *)
ShortGroup(w, g) ==
    /\ g + 16 <= Len(w)
    /\ \A j \in (g + 1)..(g + 15) : Tag(w[j]) = BRANCH_CHILD
    /\ Tag(w[g + 16]) \in {BRANCH_INIT, COMPACT_LEAF}

(* Scenario D: Scenario A with one child row left out, the key being the   *)
(* index of one of the 15 child rows that remain.                          *)
ScenarioD(w) ==
    /\ Len(w) \in {17, 18}
    /\ Tag(w[1]) = BRANCH_INIT
    /\ Len(w[1]) = WITNESS_ROW_WIDTH + 1
    /\ At(w[1], 4) \in 0..14
    /\ \A i \in 0..14 :
          /\ Tag(w[i + 2]) = BRANCH_CHILD
          /\ Len(w[i + 2]) = WITNESS_ROW_WIDTH + 1
    /\ \A i \in 17..Len(w) :
          /\ Tag(w[i]) = COMPACT_LEAF
          /\ Len(Payload(w[i])) > WITNESS_ROW_WIDTH \div 2

----------------------------------------------------------------------------
(* The witness rows that the loop of assign has got through *)
Processed == 1..ind

FlagsOf(row) ==
    <<row.is_branch_init, row.is_branch_child, row.is_compact_leaf, row.is_keccak_leaf>>

(* C16 as stated: the row emitted for a BranchInit witness row has         *)
(* is_branch_init = 1, the other three flags 0, node_index = 0, key = 0    *)
(* and is_modified = 0, and the offset after it is its own offset plus 1.  *)
C16_Claim ==
    \A g \in InitRows(witness) \cap Processed :
        /\ FlagsOf(Emitted(g)) = <<One, Zero, Zero, Zero>>
        /\ Emitted(g).node_index = Zero
        /\ Emitted(g).key = Zero
        /\ Emitted(g).is_modified = Zero
        /\ ind = g => offset = OffsetOf(witness, g) + 1

----------------------------------------------------------------------------
(* The most recent BranchInit row before witness row j (0 if there is none) *)
LastInit(w, j) ==
    LET before == {g \in InitRows(w) : g < j}
    IN  IF before = {} THEN 0 ELSE CHOOSE g \in before : \A h \in before : h <= g

(* The number of BranchChild rows between that BranchInit row and row j *)
ChildIndex(w, j) ==
    Cardinality({m \in (LastInit(w, j) + 1)..(j - 1) : Tag(w[m]) = BRANCH_CHILD})

(* The key read at that BranchInit row (the initial 0 if there is none) *)
KeyAt(w, j) == IF LastInit(w, j) = 0 THEN 0 ELSE At(w[LastInit(w, j)], 4)

(* The witness row that the lookahead of BranchInit row g reads *)
LookaheadRow(w, g) == w[g + At(w[g], 4) + 1]

(* The registers captured at that BranchInit row (initially four zeros) *)
SWordsAt(w, j) ==
    IF LastInit(w, j) = 0 THEN <<Zero, Zero, Zero, Zero>>
    ELSE into_words(SHash(LookaheadRow(w, LastInit(w, j))))

CWordsAt(w, j) ==
    IF LastInit(w, j) = 0 THEN <<Zero, Zero, Zero, Zero>>
    ELSE into_words(CHash(LookaheadRow(w, LastInit(w, j))))

(* The bytes of a payload that exist are in the rlp and hash columns *)
RawBytes(row, payload) ==
    /\ row.s_rlp1 = u64(At(payload, 0))
    /\ row.s_rlp2 = u64(At(payload, 1))
    /\ \A i \in 1..HASH_WIDTH : row.s_advices[i] = u64(At(payload, S_START + i - 1))
    /\ row.c_rlp1 = u64(At(payload, WITNESS_ROW_WIDTH \div 2))
    /\ Len(payload) > WITNESS_ROW_WIDTH \div 2 + 1
          => row.c_rlp2 = u64(At(payload, WITNESS_ROW_WIDTH \div 2 + 1))
    /\ \A i \in 1..HASH_WIDTH :
          Len(payload) > C_START + i - 1
              => row.c_advices[i] = u64(At(payload, C_START + i - 1))

ChildRows(w) == {j \in 1..Len(w) : Tag(w[j]) = BRANCH_CHILD}

(* What C17 says of the row emitted for BranchChild witness row j, but for *)
(* the range of node_index                                                 *)
BranchChildEmitted(j) ==
    /\ Emitted(j).is_branch_child = One
    /\ Emitted(j).node_index = u64(ChildIndex(witness, j))
    /\ Emitted(j).key = u64(KeyAt(witness, j))
    /\ Emitted(j).is_modified = Bool(ChildIndex(witness, j) = KeyAt(witness, j))
    /\ Emitted(j).s_keccak = SWordsAt(witness, j)
    /\ Emitted(j).c_keccak = CWordsAt(witness, j)
    /\ RawBytes(Emitted(j), Payload(witness[j]))
    /\ ind = j => /\ offset = OffsetOf(witness, j) + 1
                  /\ branch_ind = ChildIndex(witness, j) + 1

----------------------------------------------------------------------------
(* The cells of a Keccak row other than its 21 words are zero *)
RestZero(row) ==
    /\ row.s_rlp1 = Zero /\ row.s_rlp2 = Zero
    /\ row.c_rlp1 = Zero /\ row.c_rlp2 = Zero
    /\ \A i \in (KECCAK_INPUT_WIDTH + KECCAK_OUTPUT_WIDTH + 1)..HASH_WIDTH :
          row.s_advices[i] = Zero
    /\ \A i \in 1..HASH_WIDTH : row.c_advices[i] = Zero

(* C18 as stated: a CompactLeaf witness row at offset o is emitted as a    *)
(* data row at o (is_compact_leaf the only flag, the leaf bytes in the S   *)
(* columns) and a row at o + 1 (is_keccak_leaf the only flag) whose        *)
(* s_advices[0..16] are into_words(pad(leaf)), s_advices[17..20] the       *)
(* packed digest and whose other rlp and hash cells are 0; q_enable is set *)
(* on both and the offset advances by two.                                 *)
C18_Claim ==
    \A j \in LeafRows(witness) \cap Processed :
        LET o == OffsetOf(witness, j)
            x == Payload(witness[j])
            data == RowAt(region, o)
            krow == RowAt(region, o + 1)
        IN  /\ FlagsOf(data) = <<Zero, Zero, One, Zero>>
            /\ data.s_rlp1 = u64(At(x, 0)) /\ data.s_rlp2 = u64(At(x, 1))
            /\ \A i \in 1..HASH_WIDTH : data.s_advices[i] = u64(At(x, S_START + i - 1))
            /\ FlagsOf(krow) = <<Zero, Zero, Zero, One>>
            /\ InputWords(krow.s_advices) = into_words(pad(x))
            /\ OutputWords(krow.s_advices) = into_words(compute_keccak(x))
            /\ RestZero(krow)
            /\ data.q_enable = One /\ krow.q_enable = One
            /\ ind = j => offset = o + 2

(* C19 as stated: the row read by the lookahead of a BranchInit row that   *)
(* assign got through is a BranchChild row of the same group, the one with *)
(* child index key, and the s_keccak / c_keccak of every emitted row of    *)
(* the group are the word-packing of that row's s_hash / c_hash.           *)
C19_Claim ==
    \A g \in InitRows(witness) \cap Processed :
        LET t == g + At(witness[g], 4) + 1
        IN  /\ t \in GroupChildren(witness, g)
            /\ ChildIndex(witness, t) = At(witness[g], 4)
            /\ t \in Processed => Emitted(t).is_modified = One
            /\ \A j \in GroupChildren(witness, g) \cap Processed :
                  /\ Emitted(j).s_keccak = into_words(SHash(witness[t]))
                  /\ Emitted(j).c_keccak = into_words(CHash(witness[t]))

----------------------------------------------------------------------------
BranchChildrenNames ==
    {"before branch children", "first branch children 1", "first branch children 2",
     "last branch children", "node index increasing for branch children",
     "key the same for branch children"}

SatisfiesBranchChildren ==
    \A r \in Rows : \A name \in BranchChildrenNames : ~Failed(name, r)

IsChild(r) == RowAt(region, r).is_branch_child = One

(* Rows r0 + 1 .. r0 + n are a maximal run of branch-child rows after the  *)
(* branch-init row r0, followed by an assigned row that is no branch child *)
ClosedRun(r0, n) ==
    /\ RowAt(region, r0).is_branch_init = One
    /\ r0 + n + 1 < Len(region)
    /\ \A i \in 1..n : IsChild(r0 + i)
    /\ ~IsChild(r0 + n + 1)

(* C20 as stated: in a verified assignment on which no constraint of       *)
(* "branch children" fails, every such run has exactly 16 rows and their   *)
(* node_index values are 0, 1, ..., 15 in this order.                      *)
C20_Claim ==
    (pc = "verified" /\ SatisfiesBranchChildren) =>
        \A r0 \in Rows : \A n \in 1..Len(region) :
            ClosedRun(r0, n)
            => /\ n = 16
               /\ \A i \in 1..16 : RowAt(region, r0 + i).node_index = u64(i - 1)

----------------------------------------------------------------------------
KeccakNames ==
    {"s_keccak the same for all branch children",
     "c_keccak the same for all branch children",
     "keccak leaf output same as keccak in branch nodes",
     "s_keccak correspond to s_advices at the modified index",
     "c_keccak correspond to s_advices at the modified index"}

SatisfiesKeccak == \A r \in Rows : \A name \in KeccakNames : ~Failed(name, r)

(* Rows r0 + 1 .. r0 + n are branch-child rows after the branch-init row r0 *)
RunAfterInit(r0, n) ==
    /\ RowAt(region, r0).is_branch_init = One
    /\ r0 + n < Len(region)
    /\ \A i \in 1..n : IsChild(r0 + i)

(* C21 as stated: in a verified assignment on which no constraint of       *)
(* "branch children" and "keccak constraints" fails, all branch-child rows *)
(* between a branch-init row and the next row that is no branch child have *)
(* the same key, the same s_keccak and the same c_keccak.                  *)
C21_Claim ==
    (pc = "verified" /\ SatisfiesBranchChildren /\ SatisfiesKeccak) =>
        \A r0 \in Rows : \A n \in 1..Len(region) :
            RunAfterInit(r0, n)
            => /\ RowAt(region, r0 + n).key = RowAt(region, r0 + 1).key
               /\ RowAt(region, r0 + n).s_keccak = RowAt(region, r0 + 1).s_keccak
               /\ RowAt(region, r0 + n).c_keccak = RowAt(region, r0 + 1).c_keccak

----------------------------------------------------------------------------
(* C22 as stated: in a verified assignment on which no constraint of       *)
(* "branch children" fails, the last row of every run of branch-child rows *)
(* after a branch-init row has node_index = 15, also when the run ends     *)
(* with the assigned rows.                                                 *)
C22_Claim ==
    (pc = "verified" /\ SatisfiesBranchChildren) =>
        \A r0 \in Rows : \A n \in 1..Len(region) :
            (RunAfterInit(r0, n) /\ ~IsChild(r0 + n + 1))
            => RowAt(region, r0 + n).node_index = u64(15)

(* C23 as stated: after assign of a non-empty witness q_not_first is 0 at  *)
(* offset 0 and 1 on every other row written.                              *)
C23_Claim ==
    (Assigned /\ Len(region) > 0) =>
        /\ RowAt(region, 0).q_not_first = Zero
        /\ \A r \in 1..(Len(region) - 1) : RowAt(region, r).q_not_first = One

----------------------------------------------------------------------------
Words21(r) ==
    [i \in 1..(KECCAK_INPUT_WIDTH + KECCAK_OUTPUT_WIDTH) |-> RowAt(region, r).s_advices[i]]

Loaded(row21) == \E t \in 1..Len(keccak_table) : keccak_table[t] = row21

EnabledRow(r) == RowAt(region, r).q_enable = One

(* C24 as stated: once verified, an enabled row with is_keccak_leaf = 0    *)
(* has no lookup failure whatever the table, and an enabled row with       *)
(* is_keccak_leaf = 1 has none only if its 21 words are a loaded row.      *)
C24_Original ==
    pc = "verified" =>
        \A r \in Rows :
            EnabledRow(r) =>
                /\ RowAt(region, r).is_keccak_leaf = Zero => ~Failed("lookup", r)
                /\ (RowAt(region, r).is_keccak_leaf = One /\ ~Failed("lookup", r))
                      => Loaded(Words21(r))

(* C24 amended: the lookup input of an enabled row with is_keccak_leaf = 0 *)
(* is the all-zero tuple, which is in the table exactly when the table     *)
(* columns have a row that load did not write; an enabled row with         *)
(* is_keccak_leaf = 1 satisfies the lookup exactly when its 21 words are a *)
(* loaded row, or are all zero while the table has such an unwritten row.  *)
C24_LookupRule ==
    pc = "verified" =>
        \A r \in Rows :
            EnabledRow(r) =>
                /\ RowAt(region, r).is_keccak_leaf = Zero
                      => (~Failed("lookup", r) <=> Len(keccak_table) < UsableRows)
                /\ RowAt(region, r).is_keccak_leaf = One
                      => (~Failed("lookup", r)
                          <=> \/ Loaded(Words21(r))
                              \/ /\ \A i \in 1..(KECCAK_INPUT_WIDTH + KECCAK_OUTPUT_WIDTH) :
                                        Words21(r)[i] = Zero
                                 /\ Len(keccak_table) < UsableRows)

C24_Witness ==
    /\ pc = "verified" /\ Len(keccak_table) = UsableRows /\ Len(region) = 19
    /\ EnabledRow(3) /\ RowAt(region, 3).is_keccak_leaf = Zero /\ Failed("lookup", 3)
    /\ EnabledRow(18) /\ RowAt(region, 18).is_keccak_leaf = One /\ ~Failed("lookup", 18)
    /\ Loaded(Words21(18))

----------------------------------------------------------------------------
Count(o, c) == writes.count[o + 1][<<c, 0>>]
CountAt(o, c, i) == writes.count[o + 1][<<c, i>>]

Written == 0..(Len(writes.count) - 1)

(* C25 as stated: no cell is written more than once and no row is written  *)
(* after a row at a higher offset.                                         *)
C25_Original ==
    /\ writes.late = {}
    /\ \A o \in Written : \A c \in Cells : writes.count[o + 1][c] <= 1

TwiceOnInit == {<<"node_index", 0>>, <<"key", 0>>, <<"is_modified", 0>>}

TwiceOnKeccak ==
    {<<"s_advices", i>> : i \in 0..(KECCAK_INPUT_WIDTH + KECCAK_OUTPUT_WIDTH - 1)}

KeccakCells ==
    {<<c, i>> : c \in {"s_keccak", "c_keccak"}, i \in 0..(KECCAK_OUTPUT_WIDTH - 1)}

(* The number of writes that a row of each type gets in each cell *)
ExpectedCount(row, c) ==
    IF row.is_branch_child = One THEN 1
    ELSE IF c \in KeccakCells THEN 0
    ELSE IF row.is_branch_init = One /\ c \in TwiceOnInit THEN 2
    ELSE IF row.is_keccak_leaf = One /\ c \in TwiceOnKeccak THEN 2
    ELSE 1

(* C25 amended: no row is written after a row at a higher offset, and a    *)
(* cell is written once, but for the node_index, key and is_modified cells *)
(* of a BranchInit row and the s_advices[0..20] cells of a Keccak row,     *)
(* which are written twice (and the s_keccak / c_keccak cells of rows that *)
(* are no branch children, which are not written).                         *)
C25_WrittenTwice ==
    /\ writes.late = {}
    /\ Len(writes.count) = Len(region)
    /\ \A o \in Written : \A c \in Cells :
          writes.count[o + 1][c] = ExpectedCount(RowAt(region, o), c)

C25_Witness ==
    /\ pc = "done" /\ Len(region) = 21 /\ writes.top = 20
    /\ Count(0, "is_modified") = 2 /\ RowAt(region, 0).is_modified = One
    /\ CountAt(18, "s_advices", 20) = 2 /\ CountAt(18, "s_advices", 21) = 1
    /\ Count(17, "is_modified") = 1 /\ CountAt(5, "s_keccak", 0) = 1

----------------------------------------------------------------------------
(* assign is inside its loop, has panicked there, or has returned after    *)
(* the last row                                                            *)
NoWriteFailed == pc \in {"assign", "panic"} \/ Assigned

EnabledOffsets == {r \in 0..(UsableRows - 1) : RowAt(region, r).q_enable = One}

----------------------------------------------------------------------------
OneHot == {<<One, Zero, Zero, Zero>>, <<Zero, One, Zero, Zero>>,
           <<Zero, Zero, One, Zero>>, <<Zero, Zero, Zero, One>>}

(* C27: every row that assign has written has exactly one of the four      *)
(* row-type flags equal to 1 and the other three equal to 0, and its       *)
(* is_modified is 0 or 1.                                                  *)
C27_OneHotFlags ==
    \A r \in Rows :
        /\ FlagsOf(RowAt(region, r)) \in OneHot
        /\ RowAt(region, r).is_modified \in {Zero, One}

C27_Witness ==
    /\ pc = "done" /\ Len(region) = 21
    /\ {FlagsOf(RowAt(region, r)) : r \in Rows} = OneHot
    /\ RowAt(region, 3).is_modified = Zero /\ RowAt(region, 20).is_keccak_leaf = One

(* C28 as stated: when load_keccak_table returns Err, load does not return *)
(* Ok (synthesize does not go on to assign); and when a write of assign    *)
(* returns Err, assign does not return as it does after the last row.      *)
C28_Claim ==
    /\ pc # "load" => ~load_keccak_table_fails(to_be_hashed)
    /\ pc \in {"done", "verified"} => ind = Len(witness)

====
